---------------------------- MODULE Spec2Model ----------------------------
(***************************************************************************)
(* Coffee-shop backend (backend/src/api.py): five Flask routes over the    *)
(* "drink" table, four of them wrapped by requires_auth(<permission>), and *)
(* the error handlers that render aborts and AuthErrors as JSON.           *)
(*                                                                         *)
(* api.py is modelled from its source.  Two collaborators it imports are   *)
(* not part of the sources at hand and are modelled from the written       *)
(* specification: backend/src/auth/auth.py (requires_auth, AuthError) and  *)
(* backend/src/database/models.py (Drink and its table).                   *)
(***************************************************************************)
EXTENDS Integers, Sequences, FiniteSets, TLC

\* Largest primary key the table hands out (inserts stop there).
MaxDrinks == 2

\* Worker threads of the server; the first one is the single-threaded server.
Requests == {"a", "b"}
Worker == "a"

Titles == {"Latte", "Mocha"}

\* Request recipes: JSON arrays of ingredients.
Recipes ==
    { <<[name |-> "milk", color |-> "white", parts |-> 1]>>,
      <<[name |-> "espresso", color |-> "brown", parts |-> 2]>> }

VARIABLES
    drinks,       \* the drink table: a set of rows [id, title, recipe]
    uniqueTitle,  \* whether the table's title column carries a UNIQUE constraint
    keyCache,     \* process-wide cache of trusted verification key ids
    phase,        \* per request: Idle, Guard, Handler, Commit, Responded
    request,      \* per request: [method, path, auth]
    guard,        \* per request: the guard's state machine
    authErr,      \* per request: the AuthError the guard raised, or NoAuthError
    payload,      \* per request: the claim set handed to the handler
    local,        \* per request: the handler's locals (body, drink_id)
    resp,         \* per request: the HTTP response
    invoked,      \* per request: how many times the wrapped handler was called
    decodes,      \* per request: how many times the Claim Decoder was called
    dirty         \* per request: whether one of its steps changed the table

vars == <<drinks, uniqueTitle, keyCache, phase, request, guard, authErr,
          payload, local, resp, invoked, decodes, dirty>>

---------------------------------------------------------------------------
(* Routing: the @app.route decorators.                                     *)

Methods == {"GET", "POST", "PATCH", "DELETE"}
Paths == {"/drinks", "/drinks-detail", "/drinks/<int:drink_id>", "/unknown"}

\* The endpoint a request line is routed to; 404 for a URL no rule matches,
\* 405 for a URL whose rules do not allow the method.
url_map(method, path) ==
    CASE path = "/drinks" /\ method = "GET" -> "get_all_drinks"
      [] path = "/drinks-detail" /\ method = "GET" -> "get_drinks_detail"
      [] path = "/drinks" /\ method = "POST" -> "create_drink"
      [] path = "/drinks/<int:drink_id>" /\ method = "PATCH" -> "patch_drink"
      [] path = "/drinks/<int:drink_id>" /\ method = "DELETE" -> "delete_drinks"
      [] path = "/unknown" -> "404"
      [] OTHER -> "405"

\* create_drink left without its @requires_auth.
GuardedEndpoints_OpenCreate ==
    {"get_drinks_detail", "patch_drink", "delete_drinks"}

\* get_drinks_detail left without its @requires_auth.
GuardedEndpoints_OpenDetail ==
    {"create_drink", "patch_drink", "delete_drinks"}

\* The view functions decorated with @requires_auth.
GuardedEndpoints ==
    {"get_drinks_detail", "create_drink", "patch_drink", "delete_drinks"}

\* A copy-paste slip: delete_drinks guarded by the read permission.
RequiredPermission_Swapped(endpoint) ==
    CASE endpoint = "get_drinks_detail" -> "get:drinks-detail"
      [] endpoint = "create_drink" -> "post:drinks"
      [] endpoint = "patch_drink" -> "patch:drinks"
      [] endpoint = "delete_drinks" -> "get:drinks-detail"

\* A copy-paste slip: create_drink guarded by the patch permission.
RequiredPermission_PostAsPatch(endpoint) ==
    CASE endpoint = "get_drinks_detail" -> "get:drinks-detail"
      [] endpoint = "create_drink" -> "patch:drinks"
      [] endpoint = "patch_drink" -> "patch:drinks"
      [] endpoint = "delete_drinks" -> "delete:drinks"

\* The permission string each @requires_auth(...) names.
RequiredPermission(endpoint) ==
    CASE endpoint = "get_drinks_detail" -> "get:drinks-detail"
      [] endpoint = "create_drink" -> "post:drinks"
      [] endpoint = "patch_drink" -> "patch:drinks"
      [] endpoint = "delete_drinks" -> "delete:drinks"

Permissions ==
    {"get:drinks-detail", "post:drinks", "patch:drinks", "delete:drinks"}

Endpoint(r) == url_map(request[r].method, request[r].path)

---------------------------------------------------------------------------
(* Credentials (Authorization header values) and tokens.                   *)

\* A token's exp is kept relative to the current time (exp - now, in
\* seconds): 60 is a minute ahead, 0 this very second, -1 a second ago.
Token(form, alg, kid, sig, iss, aud, exp, perms) ==
    [form |-> form, alg |-> alg, kid |-> kid, sig |-> sig, iss |-> iss,
     aud |-> aud, exp |-> exp, permissions |-> perms]

GoodToken(perms) == Token("jwt", "RS256", "k1", TRUE, TRUE, TRUE, 60, perms)

\* Every permission set on a sound token; every single defect (and the
\* algorithm "none" with either signature flag) on a token that holds every
\* permission.
Tokens ==
    {GoodToken(P) : P \in SUBSET Permissions}
    \cup {Token("empty", "RS256", "k1", TRUE, TRUE, TRUE, 60, Permissions),
          Token("malformed", "RS256", "k1", TRUE, TRUE, TRUE, 60, Permissions),
          Token("jwt", "none", "k1", TRUE, TRUE, TRUE, 60, Permissions),
          Token("jwt", "none", "k1", FALSE, TRUE, TRUE, 60, Permissions),
          Token("jwt", "RS256", "k9", TRUE, TRUE, TRUE, 60, Permissions),
          Token("jwt", "RS256", "k1", FALSE, TRUE, TRUE, 60, Permissions),
          Token("jwt", "RS256", "k1", TRUE, FALSE, TRUE, 60, Permissions),
          Token("jwt", "RS256", "k1", TRUE, TRUE, FALSE, 60, Permissions),
          Token("jwt", "RS256", "k1", TRUE, TRUE, TRUE, 0, Permissions),
          Token("jwt", "RS256", "k1", TRUE, TRUE, TRUE, -1, Permissions)}

NoToken == Token("empty", "RS256", "k1", TRUE, TRUE, TRUE, 60, {})

\* kind: "absent" (no Authorization header), "notBearer" (a header that is
\* not "Bearer <token>"), "bearer".
Header(kind, token) == [kind |-> kind, token |-> token]

NoHeader == Header("absent", NoToken)

Credentials ==
    {NoHeader, Header("notBearer", NoToken)}
    \cup {Header("bearer", t) : t \in Tokens}

\* The requests of the threaded runs: no header or a sound token with every
\* permission, on every method but PATCH.
ConcurrentCredentials == {NoHeader, Header("bearer", GoodToken(Permissions))}

ConcurrentMethods == {"GET", "POST", "DELETE"}

---------------------------------------------------------------------------
(* auth.py, from the specification: AuthError, the Claim Decoder, the      *)
(* Claim Validator.                                                        *)

AuthError(code, description, status_code) ==
    [error |-> [code |-> code, description |-> description],
     status_code |-> status_code]

NoAuthError == AuthError("none", "", 0)

MissingCredentialError ==
    AuthError("MissingCredentialError", "Authorization header is expected.", 401)
DecodeError == AuthError("DecodeError", "Unable to parse the token.", 401)
DisallowedAlgorithm ==
    AuthError("DisallowedAlgorithm", "Signing algorithm is not allowed.", 401)
KeyRetrievalError ==
    AuthError("KeyRetrievalError", "Key retrieval failed.", 401)
UntrustedKey == AuthError("UntrustedKey", "No trusted key has this key id.", 401)
InvalidSignature == AuthError("InvalidSignature", "Signature is invalid.", 401)
Expired == AuthError("Expired", "Token expired.", 401)
InvalidClaims ==
    AuthError("InvalidClaims", "Issuer or audience does not match.", 401)
InsufficientPermission ==
    AuthError("InsufficientPermission", "Permission not found.", 403)

\* Guard step 1: the credential of the Authorization header, or the error.
\* Absent, not of the form "Bearer <token>", or an empty token: missing.
get_token_auth_header(auth) ==
    IF auth.kind # "bearer" \/ auth.token.form = "empty"
    THEN MissingCredentialError
    ELSE NoAuthError

\* Claim Decoder: structural decoding, nothing verified.
decode_error(token) ==
    IF token.form # "jwt" THEN DecodeError ELSE NoAuthError

\* The decoded, unverified claim set.
decode_claims(token) ==
    [iss |-> token.iss, aud |-> token.aud, exp |-> token.exp,
     permissions |-> token.permissions]

NoPayload == [iss |-> FALSE, aud |-> FALSE, exp |-> 0, permissions |-> {}]

AllowedAlgorithms == {"RS256"}

\* The key ids of the issuer's published key set.
IssuerKeys == {"k1"}

\* An expiry equal to the current time is expired.
is_expired(claims) == claims.exp <= 0

\* Claim Validator: checks 1-5 on a decoded token, against the keys at hand
\* (the cache, refreshed when the token's key id missed it and the fetch
\* answered).  fetched: whether that fetch answered.
validate_claims(token, keys, fetched, permission) ==
    IF token.alg \notin AllowedAlgorithms THEN DisallowedAlgorithm
    ELSE IF token.kid \notin keys /\ ~fetched THEN KeyRetrievalError
    ELSE IF token.kid \notin keys THEN UntrustedKey
    ELSE IF ~token.sig THEN InvalidSignature
    ELSE IF is_expired(decode_claims(token)) THEN Expired
    ELSE IF ~token.iss \/ ~token.aud THEN InvalidClaims
    ELSE IF permission \notin token.permissions THEN InsufficientPermission
    ELSE NoAuthError

---------------------------------------------------------------------------
(* database/models.py, from the specification: the drink table, with the   *)
(* recipe held as JSON text.                                               *)

\* json.dumps / json.loads: a text whose content is the encoding of v.
json_dumps(v) == [json |-> v]
json_loads(text) == text.json

Row(id, title, recipe) == [id |-> id, title |-> title, recipe |-> recipe]

DrinkIds(db) == {row.id : row \in db}

\* Drink.query.filter_by(title=...).first(), as the set of matching rows.
filter_by_title(db, title) == {row \in db : row.title = title}

\* Drink.query.filter_by(id=...).one_or_none(), as the set of matching rows.
filter_by_id(db, id) == {row \in db : row.id = id}

\* The key of the next inserted row: one more than the largest key.
next_id(db) ==
    IF db = {} THEN 1
    ELSE 1 + (CHOOSE i \in DrinkIds(db) : \A j \in DrinkIds(db) : j <= i)

\* Whether the table, under its schema, accepts a row set.  The schema is
\* part of models.py and the specification names no constraint, so a run
\* starts with the title column either UNIQUE or not; a commit the table
\* refuses raises in the view function, which catches nothing.
accepts(unique, db) ==
    unique => \A x, y \in db : x.title = y.title => x = y

\* Drink.query.order_by(Drink.id).all()
RECURSIVE order_by_id(_)
order_by_id(db) ==
    IF db = {} THEN << >>
    ELSE LET first == CHOOSE x \in db : \A y \in db : x.id <= y.id
         IN <<first>> \o order_by_id(db \ {first})

\* Drink.long(): the row with its recipe decoded.
long(row) ==
    [id |-> row.id, title |-> row.title, recipe |-> json_loads(row.recipe)]

\* Drink.short(): the recipe reduced to colour and parts.
short(row) ==
    [id |-> row.id, title |-> row.title,
     recipe |-> [i \in DOMAIN json_loads(row.recipe) |->
                   [color |-> json_loads(row.recipe)[i].color,
                    parts |-> json_loads(row.recipe)[i].parts]]]

\* [drink.short() for drink in drinks], [drink.long() for drink in drinks]
shorts(rows) == [i \in DOMAIN rows |-> short(rows[i])]
longs(rows) == [i \in DOMAIN rows |-> long(rows[i])]

---------------------------------------------------------------------------
(* Request bodies: JSON objects over the keys the handlers read.           *)

Body(keys, title, recipe) ==
    [k \in keys |-> IF k = "title" THEN title ELSE recipe]

\* request.get_json(): {}, {title}, {recipe}, {title, recipe}.
Bodies ==
    {Body(K, t, rc) : K \in SUBSET {"title", "recipe"}, t \in Titles,
                      rc \in Recipes}

EmptyBody == [k \in {} |-> ""]

\* "not body"
is_empty(body) == DOMAIN body = {}

\* The route parameter <int:drink_id>: every key in use, and one that is not.
DrinkIdParams == 1..(MaxDrinks + 1)

---------------------------------------------------------------------------
(* Responses and error handlers.                                           *)

Response(status, body) == [status |-> status, body |-> body]

NoResponse == Response(0, [none |-> TRUE])

\* abort(code, description): the HTTPException raised.
Abort(code, description) == [code |-> code, description |-> description]

NoException == Abort(0, "")

\* An exception no error handler is registered for (a failed commit).
UnhandledError == Abort(500, "Internal Server Error")

not_found(error) ==
    Response(404, [success |-> FALSE, error |-> 404,
                   message |-> error.description])

bad_request(error) ==
    Response(400, [success |-> FALSE, error |-> 400,
                   message |-> error.description])

method_not_allowed(error) ==
    Response(405, [success |-> FALSE, error |-> 405,
                   message |-> error.description])

conflict(error) ==
    Response(409, [success |-> FALSE, error |-> 409,
                   message |-> error.description])

\* The error handler always answers 401.
auth_error_Always401(error) ==
    Response(401, [success |-> FALSE, error |-> error.status_code,
                   message |-> error.error.description])

auth_error(error) ==
    Response(error.status_code,
             [success |-> FALSE, error |-> error.status_code,
              message |-> error.error.description])

\* Flask's dispatch of a raised HTTPException to the registered handler;
\* anything else is the framework's own 500 page.
handle_exception(error) ==
    CASE error.code = 404 -> not_found(error)
      [] error.code = 400 -> bad_request(error)
      [] error.code = 405 -> method_not_allowed(error)
      [] error.code = 409 -> conflict(error)
      [] OTHER -> Response(500, [html |-> error.description])

\* The exception routing raises for a request line, if any.
routing_error(endpoint) ==
    CASE endpoint = "404" -> Abort(404, "The requested URL was not found.")
      [] endpoint = "405" -> Abort(405, "The method is not allowed.")
      [] OTHER -> NoException

---------------------------------------------------------------------------
(* The view functions' checks: the exception each raises before it writes, *)
(* or NoException.                                                         *)

\* create_drink without the title lookup.
create_drink_abort_NoLookup(body, db) ==
    IF is_empty(body) THEN Abort(400, "JSON passed is empty")
    ELSE IF "recipe" \notin DOMAIN body \/ "title" \notin DOMAIN body
    THEN Abort(400, "Invalid JSON, recipe or title key is not present")
    ELSE NoException

create_drink_abort(body, db) ==
    IF is_empty(body) THEN Abort(400, "JSON passed is empty")
    ELSE IF "recipe" \notin DOMAIN body \/ "title" \notin DOMAIN body
    THEN Abort(400, "Invalid JSON, recipe or title key is not present")
    ELSE IF filter_by_title(db, body.title) # {}
    THEN Abort(409, "Drink with name <title> already exists.")
    ELSE NoException

\* patch_drink with the title check moved before the row lookup.
patch_drink_abort_TitleFirst(body, drink_id, db) ==
    IF is_empty(body) THEN Abort(400, "JSON passed is empty")
    ELSE IF "title" \notin DOMAIN body
    THEN Abort(400, "JSON error, Title key is not present")
    ELSE IF filter_by_id(db, drink_id) = {}
    THEN Abort(404, "No drink found with the id <drink_id>")
    ELSE NoException

patch_drink_abort(body, drink_id, db) ==
    IF is_empty(body) THEN Abort(400, "JSON passed is empty")
    ELSE IF filter_by_id(db, drink_id) = {}
    THEN Abort(404, "No drink found with the id <drink_id>")
    ELSE IF "title" \notin DOMAIN body
    THEN Abort(400, "JSON error, Title key is not present")
    ELSE NoException

delete_drinks_abort(drink_id, db) ==
    IF filter_by_id(db, drink_id) = {}
    THEN Abort(404, "No drink found with the id <drink_id>")
    ELSE NoException

\* The row create_drink inserts.
new_drink(body, db) ==
    Row(next_id(db), body.title, json_dumps(body.recipe))

\* The row patch_drink writes back: the title always, the recipe if given.
patched_drink(old, body) ==
    Row(old.id, body.title,
        IF "recipe" \in DOMAIN body THEN json_dumps(body.recipe)
        ELSE old.recipe)

---------------------------------------------------------------------------
(* State.                                                                  *)

Local(body, drink_id) == [body |-> body, drink_id |-> drink_id]

NoLocal == Local(EmptyBody, 0)

NoRequest == [method |-> "GET", path |-> "/drinks", auth |-> NoHeader]

Init ==
    /\ drinks = {}
    /\ uniqueTitle \in BOOLEAN
    /\ keyCache = {}
    /\ phase = [r \in Requests |-> "Idle"]
    /\ request = [r \in Requests |-> NoRequest]
    /\ guard = [r \in Requests |-> "NoCredential"]
    /\ authErr = [r \in Requests |-> NoAuthError]
    /\ payload = [r \in Requests |-> NoPayload]
    /\ local = [r \in Requests |-> NoLocal]
    /\ resp = [r \in Requests |-> NoResponse]
    /\ invoked = [r \in Requests |-> 0]
    /\ decodes = [r \in Requests |-> 0]
    /\ dirty = [r \in Requests |-> FALSE]

\* The view function returned or raised: the response goes out.
Respond(r, response) ==
    /\ resp' = [resp EXCEPT ![r] = response]
    /\ phase' = [phase EXCEPT ![r] = "Responded"]

---------------------------------------------------------------------------
(* A request arrives and is routed.                                        *)

ReceiveRequest(r, credentials, methods) ==
    /\ phase[r] = "Idle"
    /\ \E method \in methods, path \in Paths, auth \in credentials :
         LET endpoint == url_map(method, path) IN
         /\ endpoint \notin GuardedEndpoints => auth = NoHeader
         /\ request' = [request EXCEPT ![r] =
                [method |-> method, path |-> path, auth |-> auth]]
         /\ IF routing_error(endpoint) # NoException
            THEN /\ Respond(r, handle_exception(routing_error(endpoint)))
                 /\ UNCHANGED invoked
            ELSE IF endpoint \in GuardedEndpoints
            THEN /\ phase' = [phase EXCEPT ![r] = "Guard"]
                 /\ UNCHANGED <<resp, invoked>>
            ELSE /\ phase' = [phase EXCEPT ![r] = "Handler"]
                 /\ invoked' = [invoked EXCEPT ![r] = @ + 1]
                 /\ UNCHANGED resp
    /\ UNCHANGED <<drinks, uniqueTitle, keyCache, guard, authErr, payload,
                   local, decodes, dirty>>

\* The single-threaded server takes one request at a time.
Receive(r) == ReceiveRequest(r, Credentials, Methods)

\* The threaded server takes a request on any idle thread.
ReceiveConcurrent(r) ==
    ReceiveRequest(r, ConcurrentCredentials, ConcurrentMethods)

---------------------------------------------------------------------------
(* requires_auth(permission)(f), from the specification.                   *)

Reject(r, error) ==
    /\ guard' = [guard EXCEPT ![r] = "Rejected"]
    /\ authErr' = [authErr EXCEPT ![r] = error]

\* Steps 1 and 2a: extract the credential, then decode it.
GuardDecode(r) ==
    /\ phase[r] = "Guard"
    /\ guard[r] = "NoCredential"
    /\ LET auth == request[r].auth IN
       IF get_token_auth_header(auth) # NoAuthError
       THEN /\ Reject(r, get_token_auth_header(auth))
            /\ UNCHANGED decodes
       ELSE /\ decodes' = [decodes EXCEPT ![r] = @ + 1]
            /\ IF decode_error(auth.token) # NoAuthError
               THEN Reject(r, decode_error(auth.token))
               ELSE /\ guard' = [guard EXCEPT ![r] = "Decoded"]
                    /\ UNCHANGED authErr
    /\ UNCHANGED <<drinks, uniqueTitle, keyCache, phase, request, payload,
                   local, resp, invoked, dirty>>

\* Step 2b: validate the decoded token against the trusted keys, fetching
\* the key set when the token's key id misses the cache.
GuardValidate(r) ==
    /\ phase[r] = "Guard"
    /\ guard[r] = "Decoded"
    /\ \E fetched \in BOOLEAN :
         LET token == request[r].auth.token
             miss == token.alg \in AllowedAlgorithms /\ token.kid \notin keyCache
             keys == IF miss /\ fetched THEN keyCache \cup IssuerKeys
                     ELSE keyCache
             error == validate_claims(token, keys, fetched,
                                      RequiredPermission(Endpoint(r)))
         IN /\ keyCache' = keys
            /\ IF error # NoAuthError
               THEN Reject(r, error)
               ELSE /\ guard' = [guard EXCEPT ![r] = "Validated"]
                    /\ UNCHANGED authErr
    /\ UNCHANGED <<drinks, uniqueTitle, phase, request, payload, local, resp,
                   invoked, decodes, dirty>>

\* Step 3: call the wrapped view function with the validated claim set.
GuardInvoke(r) ==
    /\ phase[r] = "Guard"
    /\ guard[r] = "Validated"
    /\ guard' = [guard EXCEPT ![r] = "Authorized"]
    /\ phase' = [phase EXCEPT ![r] = "Handler"]
    /\ payload' = [payload EXCEPT ![r] = decode_claims(request[r].auth.token)]
    /\ invoked' = [invoked EXCEPT ![r] = @ + 1]
    /\ UNCHANGED <<drinks, uniqueTitle, keyCache, request, authErr, local,
                   resp, decodes, dirty>>

\* Step 4: the AuthError propagates to @app.errorhandler(AuthError).
HandleAuthError(r) ==
    /\ phase[r] = "Guard"
    /\ guard[r] = "Rejected"
    /\ Respond(r, auth_error(authErr[r]))
    /\ UNCHANGED <<drinks, uniqueTitle, keyCache, request, guard, authErr,
                   payload, local, invoked, decodes, dirty>>

---------------------------------------------------------------------------
(* The view functions.  The route parameter and the body are drawn where   *)
(* the view function first reads them: the guard reads neither.            *)

get_all_drinks(r) ==
    /\ phase[r] = "Handler"
    /\ Endpoint(r) = "get_all_drinks"
    /\ Respond(r, Response(200, [success |-> TRUE,
                                 drinks |-> shorts(order_by_id(drinks))]))
    /\ UNCHANGED <<drinks, uniqueTitle, keyCache, request, guard, authErr,
                   payload, local, invoked, decodes, dirty>>

get_drinks_detail(r) ==
    /\ phase[r] = "Handler"
    /\ Endpoint(r) = "get_drinks_detail"
    /\ Respond(r, Response(200, [success |-> TRUE,
                                 drinks |-> longs(order_by_id(drinks))]))
    /\ UNCHANGED <<drinks, uniqueTitle, keyCache, request, guard, authErr,
                   payload, local, invoked, decodes, dirty>>

\* create_drink up to the title lookup; the table stops growing at MaxDrinks.
create_drink(r) ==
    /\ phase[r] = "Handler"
    /\ Endpoint(r) = "create_drink"
    /\ \E body \in Bodies :
         /\ local' = [local EXCEPT ![r] = Local(body, 0)]
         /\ IF create_drink_abort(body, drinks) # NoException
            THEN Respond(r, handle_exception(create_drink_abort(body, drinks)))
            ELSE /\ next_id(drinks) <= MaxDrinks
                 /\ phase' = [phase EXCEPT ![r] = "Commit"]
                 /\ UNCHANGED resp
    /\ UNCHANGED <<drinks, uniqueTitle, keyCache, request, guard, authErr,
                   payload, invoked, decodes, dirty>>

\* drink.insert() and the response.
create_drink_insert(r) ==
    /\ phase[r] = "Commit"
    /\ Endpoint(r) = "create_drink"
    /\ LET drink == new_drink(local[r].body, drinks) IN
       IF accepts(uniqueTitle, drinks \cup {drink})
       THEN /\ drinks' = drinks \cup {drink}
            /\ Respond(r, Response(200, [success |-> TRUE,
                                         drinks |-> <<long(drink)>>]))
       ELSE /\ drinks' = drinks
            /\ Respond(r, handle_exception(UnhandledError))
    /\ dirty' = [dirty EXCEPT ![r] = @ \/ drinks' # drinks]
    /\ UNCHANGED <<uniqueTitle, keyCache, request, guard, authErr, payload,
                   local, invoked, decodes>>

\* patch_drink up to the title check.
patch_drink(r) ==
    /\ phase[r] = "Handler"
    /\ Endpoint(r) = "patch_drink"
    /\ \E body \in Bodies, drink_id \in DrinkIdParams :
         /\ local' = [local EXCEPT ![r] = Local(body, drink_id)]
         /\ IF patch_drink_abort(body, drink_id, drinks) # NoException
            THEN Respond(r, handle_exception(
                                patch_drink_abort(body, drink_id, drinks)))
            ELSE /\ phase' = [phase EXCEPT ![r] = "Commit"]
                 /\ UNCHANGED resp
    /\ UNCHANGED <<drinks, uniqueTitle, keyCache, request, guard, authErr,
                   payload, invoked, decodes, dirty>>

\* drink.update() and the response.  An update that matches no row (the row
\* was deleted meanwhile) fails like a refused one.
patch_drink_update(r) ==
    /\ phase[r] = "Commit"
    /\ Endpoint(r) = "patch_drink"
    /\ LET found == filter_by_id(drinks, local[r].drink_id) IN
       IF found = {}
       THEN /\ drinks' = drinks
            /\ Respond(r, handle_exception(UnhandledError))
       ELSE LET old == CHOOSE row \in found : TRUE
                drink == patched_drink(old, local[r].body)
                written == (drinks \ {old}) \cup {drink}
            IN IF accepts(uniqueTitle, written)
               THEN /\ drinks' = written
                    /\ Respond(r, Response(200, [success |-> TRUE,
                                                 drinks |-> <<long(drink)>>]))
               ELSE /\ drinks' = drinks
                    /\ Respond(r, handle_exception(UnhandledError))
    /\ dirty' = [dirty EXCEPT ![r] = @ \/ drinks' # drinks]
    /\ UNCHANGED <<uniqueTitle, keyCache, request, guard, authErr, payload,
                   local, invoked, decodes>>

\* delete_drinks up to the row lookup.
delete_drinks(r) ==
    /\ phase[r] = "Handler"
    /\ Endpoint(r) = "delete_drinks"
    /\ \E drink_id \in DrinkIdParams :
         /\ local' = [local EXCEPT ![r] = Local(EmptyBody, drink_id)]
         /\ IF delete_drinks_abort(drink_id, drinks) # NoException
            THEN Respond(r, handle_exception(
                                delete_drinks_abort(drink_id, drinks)))
            ELSE /\ phase' = [phase EXCEPT ![r] = "Commit"]
                 /\ UNCHANGED resp
    /\ UNCHANGED <<drinks, uniqueTitle, keyCache, request, guard, authErr,
                   payload, invoked, decodes, dirty>>

\* drink.delete() and the response.
delete_drinks_delete(r) ==
    /\ phase[r] = "Commit"
    /\ Endpoint(r) = "delete_drinks"
    /\ drinks' = drinks \ filter_by_id(drinks, local[r].drink_id)
    /\ Respond(r, Response(200, [success |-> TRUE,
                                 deleted |-> local[r].drink_id]))
    /\ dirty' = [dirty EXCEPT ![r] = @ \/ drinks' # drinks]
    /\ UNCHANGED <<uniqueTitle, keyCache, request, guard, authErr, payload,
                   local, invoked, decodes>>

\* The response is sent; the thread is free for the next request.
Complete(r) ==
    /\ phase[r] = "Responded"
    /\ phase' = [phase EXCEPT ![r] = "Idle"]
    /\ request' = [request EXCEPT ![r] = NoRequest]
    /\ guard' = [guard EXCEPT ![r] = "NoCredential"]
    /\ authErr' = [authErr EXCEPT ![r] = NoAuthError]
    /\ payload' = [payload EXCEPT ![r] = NoPayload]
    /\ local' = [local EXCEPT ![r] = NoLocal]
    /\ resp' = [resp EXCEPT ![r] = NoResponse]
    /\ invoked' = [invoked EXCEPT ![r] = 0]
    /\ decodes' = [decodes EXCEPT ![r] = 0]
    /\ dirty' = [dirty EXCEPT ![r] = FALSE]
    /\ UNCHANGED <<drinks, uniqueTitle, keyCache>>

---------------------------------------------------------------------------
(* Specifications.                                                         *)

\* Every step of a request after its arrival.
Progress(r) ==
    \/ GuardDecode(r)
    \/ GuardValidate(r)
    \/ GuardInvoke(r)
    \/ HandleAuthError(r)
    \/ get_all_drinks(r)
    \/ get_drinks_detail(r)
    \/ create_drink(r)
    \/ create_drink_insert(r)
    \/ patch_drink(r)
    \/ patch_drink_update(r)
    \/ delete_drinks(r)
    \/ delete_drinks_delete(r)
    \/ Complete(r)

\* One worker: requests are handled one at a time.
Next == Receive(Worker) \/ Progress(Worker)

Spec == Init /\ [][Next]_vars

\* A request that arrived is run to its response.
FairSpec == Spec /\ WF_vars(Progress(Worker))

\* Every step of a request of the threaded runs after its arrival.
ProgressConcurrent(r) ==
    \/ GuardDecode(r)
    \/ GuardValidate(r)
    \/ GuardInvoke(r)
    \/ HandleAuthError(r)
    \/ get_all_drinks(r)
    \/ get_drinks_detail(r)
    \/ create_drink(r)
    \/ create_drink_insert(r)
    \/ delete_drinks(r)
    \/ delete_drinks_delete(r)
    \/ Complete(r)

\* Two threads: the steps of two requests interleave.
NextConcurrent ==
    \E r \in Requests : ReceiveConcurrent(r) \/ ProgressConcurrent(r)

SpecConcurrent == Init /\ [][NextConcurrent]_vars

---------------------------------------------------------------------------
(* Vocabulary of the properties.                                           *)

\* The four endpoints the properties call guarded.
FourEndpoints ==
    {"get_drinks_detail", "create_drink", "patch_drink", "delete_drinks"}

\* The permission string the properties name for each of them.
NamedPermission ==
    [get_drinks_detail |-> "get:drinks-detail", create_drink |-> "post:drinks",
     patch_drink |-> "patch:drinks", delete_drinks |-> "delete:drinks"]

\* A credential that is well-formed, signed by the issuer's key with an
\* allowed algorithm, from the right issuer for the right audience, and
\* not expired.
SoundCredential(auth) ==
    /\ auth.kind = "bearer"
    /\ auth.token.form = "jwt"
    /\ auth.token.alg = "RS256"
    /\ auth.token.kid = "k1"
    /\ auth.token.sig
    /\ auth.token.iss
    /\ auth.token.aud
    /\ auth.token.exp > 0

\* The wrapped view function of request r is running or has run.
InHandler(r) == invoked[r] > 0 \/ phase[r] \in {"Handler", "Commit"} \/ dirty[r]

Terminal(r) == guard[r] \in {"Authorized", "Rejected"}

ErrorBody(response, status) ==
    /\ response.status = status
    /\ DOMAIN response.body = {"success", "error", "message"}
    /\ response.body.success = FALSE
    /\ response.body.error = status

---------------------------------------------------------------------------
(* C1                                                                      *)

\* C1: on each of the four guarded endpoints, a request the guard rejected
\* never has its view function invoked and never changes the drink table;
\* the view function runs only for a request the guard authorized.
C1_RejectedNeverInvokes ==
    \A r \in Requests :
        Endpoint(r) \in FourEndpoints =>
            /\ guard[r] = "Rejected" =>
                   /\ invoked[r] = 0
                   /\ ~dirty[r]
                   /\ phase[r] \in {"Guard", "Responded"}
            /\ InHandler(r) => guard[r] = "Authorized"

\* A POST /drinks with a badly signed token that holds every permission was
\* rejected and answered, with a drink in the table.
C1_Witness ==
    \E r \in Requests :
        /\ Endpoint(r) = "create_drink"
        /\ phase[r] = "Responded"
        /\ guard[r] = "Rejected"
        /\ authErr[r] = InvalidSignature
        /\ drinks # {}

---------------------------------------------------------------------------
(* C2                                                                      *)

\* C2 as stated: every answered request on a guarded endpoint whose
\* credential is sound and holds the endpoint's permission had its view
\* function invoked exactly once, with the decoded claim set.
C2_InvokedExactlyOnce ==
    \A r \in Requests :
        /\ invoked[r] <= 1
        /\ ( /\ phase[r] = "Responded"
             /\ Endpoint(r) \in FourEndpoints
             /\ SoundCredential(request[r].auth)
             /\ NamedPermission[Endpoint(r)] \in request[r].auth.token.permissions )
           => /\ invoked[r] = 1
              /\ payload[r] = decode_claims(request[r].auth.token)

\* C2 amended: such a request is either rejected with KeyRetrievalError
\* (the trusted key set could not be fetched) without its view function
\* being invoked, or its view function was invoked exactly once, with the
\* decoded claim set.
C2_InvokedOnceOrKeyRetrievalFailed ==
    \A r \in Requests :
        /\ invoked[r] <= 1
        /\ ( /\ phase[r] = "Responded"
             /\ Endpoint(r) \in FourEndpoints
             /\ SoundCredential(request[r].auth)
             /\ NamedPermission[Endpoint(r)] \in request[r].auth.token.permissions )
           => \/ /\ guard[r] = "Authorized"
                 /\ invoked[r] = 1
                 /\ payload[r] = decode_claims(request[r].auth.token)
              \/ /\ guard[r] = "Rejected"
                 /\ authErr[r] = KeyRetrievalError
                 /\ invoked[r] = 0

\* A POST /drinks holding exactly post:drinks was invoked once and answered.
C2_Witness ==
    \E r \in Requests :
        /\ phase[r] = "Responded"
        /\ Endpoint(r) = "create_drink"
        /\ request[r].auth = Header("bearer", GoodToken({"post:drinks"}))
        /\ invoked[r] = 1
        /\ payload[r].permissions = {"post:drinks"}

---------------------------------------------------------------------------
(* C3                                                                      *)

\* C3: each guarded view function runs only for a claim set that holds the
\* permission named for it; a sound credential whose signature could be
\* verified and that lacks it is rejected with InsufficientPermission; a
\* request whose credential holds none of post:drinks, patch:drinks and
\* delete:drinks never changes the drink table.
C3_OwnPermission ==
    \A r \in Requests :
        LET perms == request[r].auth.token.permissions IN
        /\ (Endpoint(r) \in FourEndpoints /\ InHandler(r)) =>
               /\ NamedPermission[Endpoint(r)] \in perms
               /\ payload[r].permissions = perms
        /\ ( /\ Endpoint(r) \in FourEndpoints
             /\ phase[r] # "Idle"
             /\ guard[r] \notin {"NoCredential", "Decoded"}
             /\ SoundCredential(request[r].auth)
             /\ request[r].auth.token.kid \in keyCache
             /\ NamedPermission[Endpoint(r)] \notin perms )
           => /\ guard[r] = "Rejected"
              /\ authErr[r] = InsufficientPermission
        /\ dirty[r] =>
               perms \cap {"post:drinks", "patch:drinks", "delete:drinks"} # {}

\* A DELETE with a sound token holding every permission but delete:drinks
\* was rejected for it, with a drink in the table.
C3_Witness ==
    \E r \in Requests :
        /\ Endpoint(r) = "delete_drinks"
        /\ request[r].auth.token.permissions =
               {"get:drinks-detail", "post:drinks", "patch:drinks"}
        /\ guard[r] = "Rejected"
        /\ authErr[r] = InsufficientPermission
        /\ drinks # {}

---------------------------------------------------------------------------
(* C5                                                                      *)

\* C5: a request the guard rejected is answered by the error handler, never
\* by the view function, and its response is the structured error body whose
\* error field, the HTTP status and the AuthError's status code are equal,
\* with the AuthError's description as message.
C5_AuthErrorRendered ==
    \A r \in Requests :
        guard[r] = "Rejected" =>
            /\ phase[r] \in {"Guard", "Responded"}
            /\ phase[r] = "Responded" =>
                   /\ ErrorBody(resp[r], authErr[r].status_code)
                   /\ resp[r].body.message = authErr[r].error.description
                   /\ authErr[r] # NoAuthError

\* A request rejected for a missing permission was answered 403.
C5_Witness ==
    \E r \in Requests :
        /\ guard[r] = "Rejected"
        /\ phase[r] = "Responded"
        /\ authErr[r] = InsufficientPermission
        /\ resp[r].status = 403

---------------------------------------------------------------------------
(* C4                                                                      *)

\* The guard's transitions: forward along NoCredential, Decoded, Validated,
\* Authorized, or to Rejected from a state that is not terminal.
GuardTransitions ==
    {<<"NoCredential", "Decoded">>, <<"Decoded", "Validated">>,
     <<"Validated", "Authorized">>, <<"NoCredential", "Rejected">>,
     <<"Decoded", "Rejected">>, <<"Validated", "Rejected">>}

\* The guard of r moves along its transitions, and leaves a terminal state
\* only when the answered request gives way to the next one.
C4_GuardStep(r) ==
    guard'[r] # guard[r] =>
        \/ <<guard[r], guard'[r]>> \in GuardTransitions
        \/ /\ phase[r] = "Responded"
           /\ phase'[r] = "Idle"
           /\ guard'[r] = "NoCredential"

\* Rejection happens at the first failing step; the decoder runs at most
\* once, and not at all without a credential.
C4_FirstFailure(r) ==
    LET auth == request[r].auth IN
    /\ decodes[r] <= 1
    /\ (guard[r] = "Rejected") = (authErr[r] # NoAuthError)
    /\ Endpoint(r) \in FourEndpoints /\ phase[r] \in {"Handler", "Commit", "Responded"}
           => Terminal(r)
    /\ Endpoint(r) \in FourEndpoints /\ Terminal(r) =>
           /\ (auth.kind = "absent") =>
                  /\ guard[r] = "Rejected"
                  /\ authErr[r] = MissingCredentialError
           /\ (authErr[r] = MissingCredentialError) => decodes[r] = 0
           /\ (auth.kind = "bearer" /\ auth.token.form = "malformed") =>
                  /\ guard[r] = "Rejected"
                  /\ authErr[r] = DecodeError
           /\ (authErr[r] \notin {MissingCredentialError, NoAuthError}) =>
                  decodes[r] = 1
           /\ (guard[r] = "Authorized") => decodes[r] = 1

\* C4: every request on a guarded endpoint moves through NoCredential,
\* Decoded, Validated, Authorized, or to Rejected at the first failing step
\* (a request without Authorization header is rejected with
\* MissingCredentialError before any decode); Authorized and Rejected are
\* terminal; and every such request reaches one of them.
C4_GuardStateMachine ==
    /\ [](\A r \in Requests : C4_FirstFailure(r))
    /\ [][\A r \in Requests : C4_GuardStep(r)]_vars
    /\ \A r \in Requests :
           (phase[r] # "Idle" /\ Endpoint(r) \in FourEndpoints) ~> Terminal(r)

\* A request without Authorization header was rejected, undecoded.
C4_Witness ==
    \E r \in Requests :
        /\ Endpoint(r) \in FourEndpoints
        /\ request[r].auth.kind = "absent"
        /\ guard[r] = "Rejected"
        /\ authErr[r] = MissingCredentialError
        /\ decodes[r] = 0
        /\ phase[r] = "Responded"

---------------------------------------------------------------------------
(* C6                                                                      *)

HasTitleAndRecipe(body) == {"title", "recipe"} \subseteq DOMAIN body

\* The step of create_drink that reads the body and looks the title up.
C6_Lookup(r) ==
    ( /\ phase[r] = "Handler"
      /\ phase'[r] # "Handler"
      /\ Endpoint(r) = "create_drink"
      /\ HasTitleAndRecipe(local'[r].body) )
    => IF \E row \in drinks : row.title = local'[r].body.title
       THEN /\ phase'[r] = "Responded"
            /\ ErrorBody(resp'[r], 409)
            /\ drinks' = drinks
       ELSE /\ phase'[r] = "Commit"
            /\ drinks' = drinks

\* The step of create_drink that inserts and answers.
C6_Insert(r) ==
    ( /\ phase[r] = "Commit"
      /\ phase'[r] # "Commit"
      /\ Endpoint(r) = "create_drink" )
    => /\ phase'[r] = "Responded"
       /\ resp'[r].status = 200
       /\ resp'[r].body.success = TRUE
       /\ \E id \in 1..(MaxDrinks + 1) \ DrinkIds(drinks) :
              drinks' = drinks \cup
                  {Row(id, local[r].body.title,
                       json_dumps(local[r].body.recipe))}
       /\ Cardinality(drinks') = Cardinality(drinks) + 1

\* C6: an authorized POST /drinks with title and recipe is answered 409
\* (success false, error 409) and leaves the table unchanged when a stored
\* drink has that title; otherwise it succeeds and adds exactly one drink,
\* with that title and the JSON text of that recipe, to an otherwise
\* unchanged table.
C6_CreateOrConflict ==
    /\ [](\A r \in Requests :
             (phase[r] = "Commit" /\ Endpoint(r) = "create_drink") =>
                 /\ guard[r] = "Authorized"
                 /\ HasTitleAndRecipe(local[r].body)
                 /\ filter_by_title(drinks, local[r].body.title) = {})
    /\ [][\A r \in Requests : C6_Lookup(r) /\ C6_Insert(r)]_vars

\* A POST /drinks with the title of a stored drink was answered 409.
C6_Witness ==
    \E r \in Requests :
        /\ Endpoint(r) = "create_drink"
        /\ phase[r] = "Responded"
        /\ HasTitleAndRecipe(local[r].body)
        /\ resp[r].status = 409
        /\ \E row \in drinks : row.title = local[r].body.title
        /\ ~dirty[r]

---------------------------------------------------------------------------
(* C7                                                                      *)

\* The view function of a PATCH or DELETE read its id, which is not a key
\* of the table.
C7_MissingId(r) ==
    /\ phase[r] = "Handler"
    /\ phase'[r] # "Handler"
    /\ Endpoint(r) \in {"patch_drink", "delete_drinks"}
    /\ local'[r].drink_id \notin DrinkIds(drinks)

C7_Answered404(r) ==
    /\ phase'[r] = "Responded"
    /\ ErrorBody(resp'[r], 404)
    /\ drinks' = drinks

---------------------------------------------------------------------------
(* C8                                                                      *)

\* The step of patch_drink that reads the body and the id of a stored drink.
C8_Lookup(r) ==
    ( /\ phase[r] = "Handler"
      /\ phase'[r] # "Handler"
      /\ Endpoint(r) = "patch_drink"
      /\ ~is_empty(local'[r].body)
      /\ local'[r].drink_id \in DrinkIds(drinks) )
    => phase'[r] = "Commit"

\* The step of patch_drink that updates and answers.
C8_Update(r) ==
    ( /\ phase[r] = "Commit"
      /\ phase'[r] # "Commit"
      /\ Endpoint(r) = "patch_drink" )
    => LET body == local[r].body
           old == CHOOSE row \in drinks : row.id = local[r].drink_id
           new == Row(old.id,
                      IF "title" \in DOMAIN body THEN body.title
                      ELSE old.title,
                      IF "recipe" \in DOMAIN body THEN json_dumps(body.recipe)
                      ELSE old.recipe)
       IN /\ resp'[r].status = 200
          /\ drinks' = (drinks \ {old}) \cup {new}

\* C8: an authorized PATCH on a stored drink with a non-empty body (title,
\* recipe or both) succeeds, sets each supplied field, keeps the other and
\* leaves every other drink unchanged.
C8_PatchTitleOrRecipe ==
    [][\A r \in Requests : C8_Lookup(r) /\ C8_Update(r)]_vars

---------------------------------------------------------------------------
(* C9                                                                      *)

---------------------------------------------------------------------------
(* C10                                                                     *)

\* C10: of two authorized POST /drinks with the same title, both answered,
\* at most one succeeded and, if one did, the other was answered 409.
C10_AtMostOneCreated ==
    \A r1, r2 \in Requests :
        ( /\ r1 # r2
          /\ phase[r1] = "Responded" /\ phase[r2] = "Responded"
          /\ Endpoint(r1) = "create_drink" /\ Endpoint(r2) = "create_drink"
          /\ guard[r1] = "Authorized" /\ guard[r2] = "Authorized"
          /\ HasTitleAndRecipe(local[r1].body)
          /\ HasTitleAndRecipe(local[r2].body)
          /\ local[r1].body.title = local[r2].body.title
          /\ resp[r1].status = 200 )
        => /\ resp[r2].status = 409
           /\ Cardinality(filter_by_title(drinks, local[r1].body.title)) <= 1

=============================================================================
